---- MODULE Spec2Model ----
(***************************************************************************)
(* The two TextIt outgoing backends of rapidsms_textit:                    *)
(*   src/rapidsms_textit/outgoing.py  "rapidsms_textit" (direct POST of a  *)
(*                                    flat {phone, text} command)          *)
(*   src/rtextit/outgoing.py          "rtextit" (a signed program posted   *)
(*                                    for a later callback)                *)
(* One backend instance is modelled; `variant` says which class it is.     *)
(*                                                                         *)
(* Python strings whose characters matter (identities, text, the number)   *)
(* are sequences of one-character strings; opaque strings (the token, the  *)
(* URLs, JSON literals) are TLA+ strings.  A dict is a function whose      *)
(* DOMAIN is its key set.  An attribute that may not exist yet is <<>>     *)
(* (absent) or <<v>> (assigned v).                                         *)
(***************************************************************************)
EXTENDS Naturals, Sequences, FiniteSets, TLC

VARIABLES
    variant,            \* which TextItBackend class the instance is
    config,             \* self.config: NoAttr or Attr(mapping)
    api_url,            \* self.api_url: NoAttr or Attr(url) (rapidsms_textit only)
    call,               \* the last call on the instance: its arguments and what it did
    configure_raised    \* history: the most recent configure call raised

vars == <<variant, config, api_url, call, configure_raised>>

Direct == "rapidsms_textit"

Signed == "rtextit"

Variants == {Direct, Signed}

NoAttr == <<>>

Attr(v) == <<v>>

EmptyDict == <<>>

\* ------------------------------------------------------------- bounds

MaxIdLen == 1

MaxIds == 2

MaxTextLen == 2

MaxNumLen == 2

RECURSIVE BoundedSeq(_, _)
BoundedSeq(S, n) ==
    IF n = 0 THEN {<<>>}
    ELSE LET shorter == BoundedSeq(S, n - 1)
         IN  shorter \cup {Append(s, c) : s \in {t \in shorter : Len(t) = n - 1}, c \in S}

\* ------------------------------------------------------ module constants

base_url_direct == "https://api.textit.in/api/v1/"

base_url_signed == "https://api.textit.in/api/v1.json"

\* Faulty variant: the check of `number` is forgotten.
RequiredKeysTokenOnly == <<"api_token">>

RequiredKeys == <<"api_token", "number">>

\* ------------------------------------------------------------ configure

\* `config or {}`: None and the empty dict both give an empty dict.
ConfigOrEmpty(cfg_in) == IF cfg_in = NoAttr THEN EmptyDict ELSE cfg_in[1]

\* The first key of the `for key in [...]` loop that is not in the mapping, as a
\* sequence of at most one key.
FirstMissingKey(mapping) ==
    LET missing == SelectSeq(RequiredKeys, LAMBDA k : k \notin DOMAIN mapping)
    IN  IF missing = <<>> THEN <<>> ELSE <<Head(missing)>>

\* dict.get(key, default)
DictGet(mapping, key, default) ==
    IF key \in DOMAIN mapping THEN mapping[key] ELSE default

\* configure(config=None, **kwargs) on an instance whose attributes are
\* (old_config, old_api_url): the exception raised ("" for none), its message
\* and the attributes afterwards.
configure(v, old_config, old_api_url, cfg_in, kwargs) ==
    LET stored  == ConfigOrEmpty(cfg_in)
        missing == FirstMissingKey(stored)
    IN  IF missing # <<>>
        THEN [exc |-> "ImproperlyConfigured",
              msg |-> <<"TextIt backend config must set '%s'; config is %r", missing[1]>>,
              config |-> Attr(stored),
              api_url |-> old_api_url]
        ELSE LET url == IF v = Direct
                        THEN Attr(DictGet(stored, "api_url", base_url_direct))
                        ELSE old_api_url
             IN  IF DOMAIN kwargs # {}
                 THEN [exc |-> "ImproperlyConfigured",
                       msg |-> <<"All textit backend config should be within the config entry of the backend dictionary">>,
                       config |-> Attr(stored),
                       api_url |-> url]
                 ELSE [exc |-> "", msg |-> <<>>, config |-> Attr(stored), api_url |-> url]

\* ------------------------------------------------------- library calls

\* str.startswith('+')
StartsWithPlus(id) == Len(id) > 0 /\ id[1] = "+"

\* django.utils.html.escape, one character: & < > " ' become entities.
EscapeChar(c) ==
    CASE c = "&"  -> <<"&", "a", "m", "p", ";">>
      [] c = "<"  -> <<"&", "l", "t", ";">>
      [] c = ">"  -> <<"&", "g", "t", ";">>
      [] c = "\"" -> <<"&", "q", "u", "o", "t", ";">>
      [] c = "'"  -> <<"&", "#", "3", "9", ";">>
      [] OTHER    -> <<c>>

\* Faulty variant: the text goes out as given.
escape_skipped(text) == text

RECURSIVE escape(_)
escape(text) ==
    IF text = <<>> THEN <<>> ELSE EscapeChar(Head(text)) \o escape(Tail(text))

\* Faulty variant: str.replace('-', '', 1), only the first hyphen goes.
RECURSIVE ReplaceFirstHyphen(_)
ReplaceFirstHyphen(s) ==
    IF s = <<>> THEN <<>>
    ELSE IF Head(s) = "-" THEN Tail(s)
    ELSE <<Head(s)>> \o ReplaceFirstHyphen(Tail(s))

\* str.replace('-', ''): every hyphen removed, left to right.
RECURSIVE ReplaceHyphens(_)
ReplaceHyphens(s) ==
    IF s = <<>> THEN <<>>
    ELSE IF Head(s) = "-" THEN ReplaceHyphens(Tail(s))
    ELSE <<Head(s)>> \o ReplaceHyphens(Tail(s))

\* json.dumps(obj): the serialised text of obj, kept as the value it encodes.
json_dumps(obj) == [json |-> obj]

\* django.core.signing.dumps(obj): the serialised payload and an HMAC over it.
\* The MAC is an uninterpreted tag of the payload.
signing_dumps(obj) == [payload |-> json_dumps(obj), signature |-> <<"hmac", json_dumps(obj)>>]

\* Faulty variant: a failed request is sent again.
requests_post_retry(request) == <<request, request>>

\* requests.post(url, data=..., headers=...): the requests put on the wire.
requests_post(request) == <<request>>

\* Faulty variant: only a server error raises.
raise_for_server_error(status_code) == status_code >= 500 /\ status_code < 600

\* Response.raise_for_status(): HTTPError for a 4xx or 5xx status, nothing otherwise.
raise_for_status(status_code) == status_code >= 400 /\ status_code < 600

\* Python truth value of a JSON literal (`not result['success']`).
Truthy(literal) == literal \notin {"false", "null", "0", "\"\""}

\* ------------------------------------------------ rapidsms_textit (direct)

\* Faulty variant: the `+` is prepended whatever the identity starts with.
AlwaysPrefix(id) == <<"+">> \o id

\* `'+{}'.format(id) if not id.startswith('+') else id`
NormalizeIdentity(id) == IF ~StartsWithPlus(id) THEN <<"+">> \o id ELSE id

\* `if isinstance(identities, basestring): identities = [identities]`
AsList(identities) ==
    IF identities.kind = "str" THEN <<identities.val>> ELSE identities.val

\* The `ids` list comprehension of send.
NormalizeIdentities(identities) ==
    LET l == AsList(identities) IN [i \in 1..Len(l) |-> NormalizeIdentity(l[i])]

\* The program send builds.
direct_program(text, identities) ==
    [phone |-> NormalizeIdentities(identities), text |-> escape(text)]

\* textit_post(endpoint, params) with the provider answering `response`.
textit_post(cfg, url, endpoint, params, response) ==
    LET data == json_dumps(params) IN
    IF cfg = NoAttr
    THEN [exc |-> "AttributeError", msg |-> <<"config">>, posts |-> <<>>]
    ELSE IF "api_token" \notin DOMAIN cfg[1]
    THEN [exc |-> "KeyError", msg |-> <<"api_token">>, posts |-> <<>>]
    ELSE IF url = NoAttr
    THEN [exc |-> "AttributeError", msg |-> <<"api_url">>, posts |-> <<>>]
    ELSE LET headers == ("content-type" :> <<"application/json">>)
                        @@ ("Authorization" :> <<"Token ", cfg[1]["api_token"]>>)
             request == [url |-> <<url[1], endpoint, ".json">>,
                         data |-> data, headers |-> headers]
             posts   == requests_post(request)
         IN  IF response.conn_error
             THEN [exc |-> "ConnectionError", msg |-> <<>>, posts |-> posts]
             ELSE IF raise_for_status(response.status_code)
             THEN [exc |-> "HTTPError", msg |-> <<>>, posts |-> posts]
             ELSE [exc |-> "", msg |-> <<>>, posts |-> posts]

\* send(id_, text, identities, context) of rapidsms_textit.
direct_send(cfg, url, text, identities, response) ==
    LET program == direct_program(text, identities)
        r       == textit_post(cfg, url, "sms", program, response)
    IN  [exc |-> r.exc, msg |-> r.msg, posts |-> r.posts,
         programs |-> <<program>>]

\* ------------------------------------------------------- rtextit (signed)

\* `for identity in identities`: a list gives its elements, a string its characters.
Iterate(identities) ==
    IF identities.kind = "str"
    THEN [i \in 1..Len(identities.val) |-> <<identities.val[i]>>]
    ELSE identities.val

\* One `message` command.
Command(text, identity, from_) ==
    [message |-> [say |-> [value |-> text], to |-> identity, from |-> from_,
                  channel |-> "TEXT", network |-> "SMS"]]

\* The commands list after the loop over `items`.
Commands(text, items, from_) ==
    [i \in 1..Len(items) |-> Command(text, items[i], from_)]

\* execute_textit_program(program) with the provider answering `response`.
execute_textit_program(cfg, program, response) ==
    LET signed_program == signing_dumps(program) IN
    IF "api_token" \notin DOMAIN cfg[1]
    THEN [exc |-> "KeyError", msg |-> <<"api_token">>, posts |-> <<>>]
    ELSE LET params  == [action |-> "create", token |-> cfg[1]["api_token"],
                         program |-> signed_program]
             headers == ("accept" :> <<"application/json">>)
                        @@ ("content-type" :> <<"application/json">>)
             request == [url |-> <<base_url_signed>>,
                         data |-> json_dumps(params), headers |-> headers]
             posts   == requests_post(request)
             result  == response.content.obj
         IN  IF response.conn_error
             THEN [exc |-> "ConnectionError", msg |-> <<>>, posts |-> posts]
             ELSE IF raise_for_status(response.status_code)
             THEN [exc |-> "HTTPError", msg |-> <<>>, posts |-> posts]
             ELSE IF ~response.content.json
             THEN [exc |-> "ValueError", msg |-> <<>>, posts |-> posts]
             ELSE IF "success" \notin DOMAIN result
             THEN [exc |-> "KeyError", msg |-> <<"success">>, posts |-> posts]
             ELSE IF ~Truthy(result["success"])
             THEN [exc |-> "Exception",
                   msg |-> <<"TextIt error: %s", DictGet(result, "error", "unknown")>>,
                   posts |-> posts]
             ELSE [exc |-> "", msg |-> <<>>, posts |-> posts]

\* send(id_, text, identities, context) of rtextit.  `program` is assigned inside
\* the loop body, so it is unbound when the loop never runs.
signed_send(cfg, text, identities, response) ==
    IF cfg = NoAttr
    THEN [exc |-> "AttributeError", msg |-> <<"config">>, posts |-> <<>>, programs |-> <<>>]
    ELSE IF "number" \notin DOMAIN cfg[1]
    THEN [exc |-> "KeyError", msg |-> <<"number">>, posts |-> <<>>, programs |-> <<>>]
    ELSE LET from_    == ReplaceHyphens(cfg[1]["number"])
             items    == Iterate(identities)
             commands == Commands(text, items, from_)
         IN  IF items = <<>>
             THEN [exc |-> "UnboundLocalError", msg |-> <<"program">>,
                   posts |-> <<>>, programs |-> <<>>]
             ELSE LET program == [textit |-> commands]
                      r       == execute_textit_program(cfg, program, response)
                  IN  [exc |-> r.exc, msg |-> r.msg, posts |-> r.posts,
                       programs |-> <<program>>]

\* send of whichever class the instance is.
send(v, cfg, url, text, identities, response) ==
    IF v = Direct THEN direct_send(cfg, url, text, identities, response)
    ELSE signed_send(cfg, text, identities, response)

\* --------------------------------------------------------------- inputs

Token == "tok"

CustomUrl == "https://textit.example/api/v1/"

ExampleNumber == <<"5", "-", "0", "-", "1">>

ConfigKeys == {"api_token", "number", "api_url"}

ConfigValue(k, number) ==
    CASE k = "api_token" -> Token
      [] k = "number"    -> number
      [] OTHER           -> CustomUrl

\* The config mappings a caller may pass: every subset of the known keys.
ConfigMappings == {[k \in S |-> ConfigValue(k, ExampleNumber)] : S \in SUBSET ConfigKeys}

\* None, or a mapping.
ConfigInputs == {NoAttr} \cup {Attr(m) : m \in ConfigMappings}

KwargsInputs == {EmptyDict, ("number" :> ExampleNumber)}

NumChars == {"5", "-"}

Numbers == BoundedSeq(NumChars, MaxNumLen) \cup {ExampleNumber}

IdChars == {"+", "1"}

ExampleIds == {<<"1", "2">>, <<"+", "1", "2">>}

IdentityStrings == BoundedSeq(IdChars, MaxIdLen) \cup ExampleIds

IdentityLists == BoundedSeq(IdentityStrings, MaxIds)

ListOf(l) == [kind |-> "list", val |-> l]

StrOf(str) == [kind |-> "str", val |-> str]

IdentitiesInputs == {ListOf(l) : l \in IdentityLists} \cup {StrOf(str) : str \in IdentityStrings}

FewIdentities ==
    {ListOf(<<>>), ListOf(<< <<"1">> >>), ListOf(<< <<"1">>, <<"+", "1", "2">> >>),
     StrOf(<<"1", "2">>)}

TextChars == {"<", ">", "&", "\"", "'", "s"}

ScriptTag == <<"<", "s", ">">>

Texts == BoundedSeq(TextChars, MaxTextLen) \cup {ScriptTag}

Statuses == {200, 304, 404, 500}

SuccessLiterals == {"true", "false", "null", "0"}

JsonObjects ==
    {s @@ e : s \in {EmptyDict} \cup {("success" :> l) : l \in SuccessLiterals},
              e \in {EmptyDict, ("error" :> "bad token")}}

NotJson == [json |-> FALSE, obj |-> EmptyDict]

Contents == {NotJson} \cup {[json |-> TRUE, obj |-> o] : o \in JsonObjects}

\* requests.post raised before any response arrived.
ConnError == [conn_error |-> TRUE, status_code |-> 0, content |-> NotJson]

Responses ==
    {ConnError} \cup
    {[conn_error |-> FALSE, status_code |-> st, content |-> c] : st \in Statuses, c \in Contents}

OkResponse ==
    [conn_error |-> FALSE, status_code |-> 200,
     content |-> [json |-> TRUE, obj |-> ("success" :> "true")]]

FailResponse == [conn_error |-> FALSE, status_code |-> 500, content |-> NotJson]

NoResponse == [conn_error |-> FALSE, status_code |-> 0, content |-> NotJson]

\* send's inputs when the HTTP exchange is under study: every response.
HttpInputs ==
    {[text |-> ScriptTag, identities |-> ids, response |-> resp] :
        ids \in FewIdentities, resp \in Responses}

\* send's inputs when the program built is under study: every text with a few
\* identities, and every identities argument with one text.
BuildInputs ==
    {[text |-> t, identities |-> ids, response |-> resp] :
        t \in Texts, ids \in FewIdentities, resp \in {OkResponse, FailResponse}}
    \cup
    {[text |-> ScriptTag, identities |-> ids, response |-> resp] :
        ids \in IdentitiesInputs, resp \in {OkResponse, FailResponse}}

\* -------------------------------------------------------------- actions

ConfigureCall(cfg_in, kwargs, r) ==
    [op |-> "configure", cfg_in |-> cfg_in, kwargs |-> kwargs,
     text |-> <<>>, identities |-> ListOf(<<>>), response |-> NoResponse,
     exc |-> r.exc, msg |-> r.msg, posts |-> <<>>, programs |-> <<>>]

SendCall(in, r) ==
    [op |-> "send", cfg_in |-> NoAttr, kwargs |-> EmptyDict,
     text |-> in.text, identities |-> in.identities, response |-> in.response,
     exc |-> r.exc, msg |-> r.msg, posts |-> r.posts, programs |-> r.programs]

Configure(cfg_in, kwargs) ==
    LET r == configure(variant, config, api_url, cfg_in, kwargs)
    IN  /\ config' = r.config
        /\ api_url' = r.api_url
        /\ call' = ConfigureCall(cfg_in, kwargs, r)
        /\ configure_raised' = (r.exc # "")
        /\ UNCHANGED variant

Send(in) ==
    LET r == send(variant, config, api_url, in.text, in.identities, in.response)
    IN  /\ call' = SendCall(in, r)
        /\ UNCHANGED <<variant, config, api_url, configure_raised>>

DoConfigure == \E cfg_in \in ConfigInputs, kwargs \in KwargsInputs : Configure(cfg_in, kwargs)

DoSend == \E in \in HttpInputs : Send(in)

\* The send call whose arguments the initial state drew is carried out.
DoBuildSend ==
    /\ call.op = "invoke"
    /\ Send([text |-> call.text, identities |-> call.identities, response |-> call.response])

\* A fresh instance, before configure has run.
Init ==
    /\ variant \in Variants
    /\ config = NoAttr
    /\ api_url = NoAttr
    /\ call = [op |-> "init", cfg_in |-> NoAttr, kwargs |-> EmptyDict,
               text |-> <<>>, identities |-> ListOf(<<>>), response |-> NoResponse,
               exc |-> "", msg |-> <<>>, posts |-> <<>>, programs |-> <<>>]
    /\ configure_raised = FALSE

Next == DoConfigure \/ DoSend

Spec == Init /\ [][Next]_vars

\* An instance whose configure succeeded, with any sending number, on which one
\* send call with any arguments is about to run.
InitConfigured ==
    \E v \in Variants, number \in Numbers, in \in BuildInputs :
        LET cfg_in == Attr([k \in {"api_token", "number"} |-> ConfigValue(k, number)])
            r      == configure(v, NoAttr, NoAttr, cfg_in, EmptyDict)
        IN  /\ variant = v
            /\ config = r.config
            /\ api_url = r.api_url
            /\ call = [op |-> "invoke", cfg_in |-> NoAttr, kwargs |-> EmptyDict,
                       text |-> in.text, identities |-> in.identities,
                       response |-> in.response,
                       exc |-> r.exc, msg |-> r.msg, posts |-> <<>>, programs |-> <<>>]
            /\ configure_raised = (r.exc # "")

NextBuild == DoBuildSend

SpecBuild == InitConfigured /\ [][NextBuild]_vars

\* ---------------------------------------------------------------- claims

TransportErrors == {"HTTPError", "ConnectionError"}

FalsyLiterals == {"false", "null", "0"}

\* A response arrived for the one request the call put on the wire.
GotResponse(c) == c.op = "send" /\ c.posts # <<>> /\ ~c.response.conn_error

Is2xx(st) == st >= 200 /\ st < 300

Is4xx5xx(st) == st >= 400 /\ st < 600

HasSuccess(c) == c.response.content.json /\ "success" \in DOMAIN c.response.content.obj

SuccessTruthy(c) == HasSuccess(c) /\ c.response.content.obj["success"] \notin FalsyLiterals

SuccessFalsy(c) == HasSuccess(c) /\ c.response.content.obj["success"] \in FalsyLiterals

ErrorText(c) ==
    IF "error" \in DOMAIN c.response.content.obj
    THEN c.response.content.obj["error"] ELSE "unknown"

\* C1: configure succeeds exactly when the config mapping holds both api_token
\* and number and no keyword argument is given; otherwise it raises
\* ImproperlyConfigured; and it never puts a request on the wire.
C1_ConfigureContract ==
    call.op = "configure" =>
        LET complete == /\ call.cfg_in # NoAttr
                        /\ {"api_token", "number"} \subseteq DOMAIN call.cfg_in[1]
            ok       == complete /\ DOMAIN call.kwargs = {}
        IN  /\ (call.exc = "") <=> ok
            /\ ~ok => call.exc = "ImproperlyConfigured"
            /\ call.posts = <<>>

C1_Witness ==
    /\ call.op = "configure"
    /\ call.exc = "ImproperlyConfigured"
    /\ call.cfg_in # NoAttr
    /\ {"api_token", "number"} \subseteq DOMAIN call.cfg_in[1]
    /\ DOMAIN call.kwargs # {}

\* C2: once a configure call has raised, no later send on the instance puts a
\* request on the wire until a configure call succeeds.
C2_FailedConfigureBlocksSend ==
    (configure_raised /\ call.op = "send") => call.posts = <<>>

Body(c) == c.posts[1].data.json

\* The program inside the signed token of rtextit's request.
SignedProgram(c) == Body(c).program.payload.json

\* C5: rtextit's send, for a list of identities of any length (zero included),
\* hands execute_textit_program exactly one program, with one command per identity.
C5_OneProgramAnyCount ==
    (variant = Signed /\ call.op = "send" /\ call.identities.kind = "list") =>
        /\ Len(call.programs) = 1
        /\ Len(call.programs[1].textit) = Len(call.identities.val)

\* C6: when identities is a single (non-empty) string, the payload addresses
\* exactly one recipient, that whole string, in both variants.
C6_SingleStringOneRecipient ==
    (call.op = "send" /\ call.identities.kind = "str" /\ call.identities.val # <<>>) =>
        /\ Len(call.posts) = 1
        /\ variant = Direct =>
               /\ Len(Body(call).phone) = 1
               /\ Body(call).phone[1] \in {call.identities.val, <<"+">> \o call.identities.val}
        /\ variant = Signed =>
               /\ Len(SignedProgram(call).textit) = 1
               /\ SignedProgram(call).textit[1].message.to = call.identities.val

\* C7: rapidsms_textit's phone list has the length and order of the identities
\* list, every entry starts with `+`, an identity without a leading `+` gets
\* one, an identity with one is unchanged, and normalising the phone list
\* again changes nothing.
C7_IdempotentPrefixing ==
    (variant = Direct /\ call.op = "send" /\ call.identities.kind = "list") =>
        /\ Len(call.posts) = 1
        /\ LET ids   == call.identities.val
               phone == Body(call).phone
           IN  /\ Len(phone) = Len(ids)
               /\ \A i \in 1..Len(ids) :
                      /\ phone[i][1] = "+"
                      /\ (Len(ids[i]) > 0 /\ ids[i][1] = "+") => phone[i] = ids[i]
                      /\ ~(Len(ids[i]) > 0 /\ ids[i][1] = "+") => phone[i] = <<"+">> \o ids[i]
               /\ NormalizeIdentities(ListOf(phone)) = phone

C7_Witness ==
    /\ variant = Direct
    /\ call.op = "send"
    /\ call.identities = ListOf(<< <<"1">>, <<"+", "1", "2">> >>)
    /\ Len(call.posts) = 1
    /\ Body(call).phone = << <<"+", "1">>, <<"+", "1", "2">> >>

Entities ==
    {[ent |-> <<"&", "a", "m", "p", ";">>, ch |-> "&"],
     [ent |-> <<"&", "l", "t", ";">>, ch |-> "<"],
     [ent |-> <<"&", "g", "t", ";">>, ch |-> ">"],
     [ent |-> <<"&", "q", "u", "o", "t", ";">>, ch |-> "\""],
     [ent |-> <<"&", "#", "3", "9", ";">>, ch |-> "'"]}

StartsWithSeq(str, prefix) ==
    Len(str) >= Len(prefix) /\ SubSeq(str, 1, Len(prefix)) = prefix

\* The text an HTML renderer shows for `str`: each entity read back as its character.
RECURSIVE Unescape(_)
Unescape(str) ==
    IF str = <<>> THEN <<>>
    ELSE IF \E e \in Entities : StartsWithSeq(str, e.ent)
    THEN LET e == CHOOSE e \in Entities : StartsWithSeq(str, e.ent)
         IN  <<e.ch>> \o Unescape(SubSeq(str, Len(e.ent) + 1, Len(str)))
    ELSE <<Head(str)>> \o Unescape(Tail(str))

\* C8: rapidsms_textit's body carries the HTML-escaped text (no raw < > " ',
\* every & opening an entity, the text read back by unescaping; <s> becomes
\* &lt;s&gt;), while every message command of rtextit carries the text as given.
C8_EscapeAsymmetry ==
    (call.op = "send" /\ call.posts # <<>>) =>
        /\ variant = Direct =>
               LET sent == Body(call).text
               IN  /\ \A i \in 1..Len(sent) : sent[i] \notin {"<", ">", "\"", "'"}
                   /\ \A i \in 1..Len(sent) :
                          sent[i] = "&" =>
                              \E e \in Entities : StartsWithSeq(SubSeq(sent, i, Len(sent)), e.ent)
                   /\ Unescape(sent) = call.text
                   /\ call.text = ScriptTag =>
                          sent = <<"&", "l", "t", ";", "s", "&", "g", "t", ";">>
        /\ variant = Signed =>
               \A i \in 1..Len(SignedProgram(call).textit) :
                   SignedProgram(call).textit[i].message.say.value = call.text

C8_Witness ==
    /\ variant = Direct
    /\ call.op = "send"
    /\ call.text = ScriptTag
    /\ call.posts # <<>>
    /\ Body(call).text = <<"&", "l", "t", ";", "s", "&", "g", "t", ";">>

\* The configured number without its hyphens, every other character kept in place.
WithoutHyphens(number) == SelectSeq(number, LAMBDA c : c # "-")

\* What C10 says of a finished send `c` on an instance whose config is `cfg`.
C10_Commands(c, cfg) ==
    /\ Len(c.posts) = 1
    /\ LET ids      == c.identities.val
           commands == SignedProgram(c).textit
       IN  /\ Len(commands) = Len(ids)
           /\ \A i \in 1..Len(ids) :
                  /\ DOMAIN commands[i] = {"message"}
                  /\ commands[i].message.to = ids[i]
                  /\ commands[i].message.from = WithoutHyphens(cfg[1]["number"])
                  /\ commands[i].message.channel = "TEXT"
                  /\ commands[i].message.network = "SMS"

\* C10: for a non-empty identities list, rtextit builds, in input order, one
\* message command per identity, with `to` the identity as given, `from` the
\* configured number without its hyphens, channel TEXT and network SMS; send
\* leaves the configured number as it was.
C10_SignedCommands ==
    [][(variant = Signed /\ call'.op = "send" /\ call'.identities.kind = "list"
        /\ call'.identities.val # <<>>) =>
            /\ C10_Commands(call', config')
            /\ config' = config]_vars

C10_Witness ==
    /\ variant = Signed
    /\ call.op = "send"
    /\ call.identities = ListOf(<< <<"1">>, <<"+", "1", "2">> >>)
    /\ config[1]["number"] = ExampleNumber
    /\ Len(call.posts) = 1
    /\ SignedProgram(call).textit[2].message.to = <<"+", "1", "2">>
    /\ SignedProgram(call).textit[1].message.from = <<"5", "0", "1">>

====
